---- MODULE Spec2Model ----
(***************************************************************************)
(* Model of lib/gridfs.js (class GridFSStorage): the per-instance          *)
(* connection lifecycle, the process-wide connection cache it consults,    *)
(* ready(), the backend notifications and the upload entry points.         *)
(*                                                                         *)
(* One action is one synchronous turn of the event loop: a constructor     *)
(* call, the continuation of an awaited promise, a process.nextTick        *)
(* callback, an event handler.                                             *)
(***************************************************************************)
EXTENDS Integers, Sequences, FiniteSets, TLC

\* ------------------------------------------------------------------ bounds
NInst == 2          \* storage engine instances that can be constructed
MaxOps == 2         \* ready() calls of the user and notifications of the backend
                    \* in one behaviour
MaxUploads == 2     \* _handleFile() and fromStream() calls in one behaviour

Inst == 1..NInst
UploadIds == 1..MaxUploads

\* ------------------------------------------------------------------ values
\* Every JavaScript value the model handles is a record [k, by, n]:
\* k is its class, by its origin (the user's configuration or the driver),
\* n tells handles of the same class apart.
Null == [k |-> "null", by |-> "none", n |-> 0]
Db(by, n) == [k |-> "Db", by |-> by, n |-> n]
Client(by, n) == [k |-> "MongoClient", by |-> by, n |-> n]
Err(n) == [k |-> "Error", by |-> "driver", n |-> n]
\* TypeError: Cannot read property 'on' of null
TypeErr == [k |-> "TypeError", by |-> "runtime", n |-> 0]
ConnErrors == {Err(1), Err(2)}
\* How a promise settles: fulfilled with a value of class kind, or rejected.
Failures == {[kind |-> "error", error |-> e] : e \in ConnErrors}
ConnectOutcomes == {[kind |-> k, error |-> Null] : k \in {"MongoClient", "Db"}} \cup Failures
DbPromiseOutcomes == {[kind |-> "Db", error |-> Null]} \cup Failures

Urls == {"mongodb://h/a"}
CacheOpts == {"false", "true", "A"}
Kinds == {"handle", "promise", "url"}
NotifyKinds == {"error", "parseError", "timeout", "close"}

\* The configurations an instance is constructed with. kind "promise"
\* stands for a db (or client) option that is a promise; hasClient tells
\* whether a client accompanies the db handle; cache is meaningful for
\* kind "url" only; file is the kind of the file option.
FileOpts == {"none", "function", "generatorFn"}
Configs ==
    {[kind |-> "handle", hasClient |-> h, cache |-> "false", url |-> "none", file |-> f] :
        h \in BOOLEAN, f \in FileOpts}
    \cup {[kind |-> "promise", hasClient |-> h, cache |-> "false", url |-> "none", file |-> f] :
        h \in BOOLEAN, f \in FileOpts}
    \cup {[kind |-> "url", hasClient |-> FALSE, cache |-> c, url |-> u, file |-> f] :
        c \in CacheOpts, u \in Urls, f \in FileOpts}

VARIABLES
    inst,       \* inst[i]: the fields of storage engine instance i
    cache,      \* GridFSStorage.cache: signature -> slot
    connects,   \* the MongoClient.connect calls made, in order: [inst, url]
    linkUp,     \* the connections <<by, n>> whose link is up
    notified,   \* number of backend notifications delivered
    isConnFn,   \* whether the driver's MongoClient has an isConnected method
    legacy,     \* const legacy: the driver has no GridFSBucket
    uploads     \* uploads[u]: the upload started by the u-th _handleFile/fromStream call

vars == <<inst, cache, connects, linkUp, notified, isConnFn, legacy, uploads>>

\* ------------------------------------------------------- connection cache
\* lib/cache.js: a slot per signature (cache name and url).
CacheNames == {"default", "A"}
Sigs == {[name |-> c, url |-> u] : c \in CacheNames, u \in Urls}
NoIndex == [name |-> "null", url |-> "null"]
EmptySlot == [status |-> "none", db |-> Null, client |-> Null, error |-> Null]

\* initialize({url, cacheName, init}): registers the slot or reuses it.
cache_initialize(c, sig) ==
    IF c[sig].status = "none" THEN [c EXCEPT ![sig].status = "pending"] ELSE c

cache_isPending(c, idx) == c[idx].status = "pending"

cache_isOpening(c, idx) == c[idx].status = "opening"

cache_resolve(c, idx, db, client) ==
    IF c[idx].status \in {"pending", "opening"}
    THEN [c EXCEPT ![idx] = [status |-> "resolved", db |-> db, client |-> client, error |-> Null]]
    ELSE c

cache_reject(c, idx, err) ==
    IF c[idx].status \in {"pending", "opening"}
    THEN [c EXCEPT ![idx] = [status |-> "rejected", db |-> Null, client |-> Null, error |-> err]]
    ELSE c

\* waitFor(index): settled once the slot is resolved or rejected.
cache_waitForSettled(c, idx) == c[idx].status \in {"resolved", "rejected"}

\* ------------------------------------------------------------ the instance
Payload(db, client, err) == [db |-> db, client |-> client, error |-> err]
NoPayload == Payload(Null, Null, Null)
ConnSignals == {"connection", "connectionFailed"}

NoConfig == [kind |-> "none", hasClient |-> FALSE, cache |-> "false", url |-> "none",
             file |-> "none"]

\* The fields the constructor sets, before _connect() runs.
NewInstance(cfg) ==
    [pc |-> "constructing", cfg |-> cfg,
     db |-> Null, client |-> Null, connected |-> FALSE, connecting |-> FALSE,
     caching |-> FALSE, cacheName |-> "null", cacheIndex |-> NoIndex, error |-> Null,
     _file |-> [kind |-> cfg.file, done |-> FALSE, made |-> 0],
     res |-> NoPayload, tick |-> FALSE, via |-> "none", errEventOn |-> Null,
     emitted |-> <<>>, ready |-> <<>>, attached |-> FALSE, heard |-> <<>>]

Unconstructed == [NewInstance(NoConfig) EXCEPT !.pc = "new"]

\* utils.getDatabase: the Db object of a Db handle is the handle itself
\* (mongoose instances and connections are not modelled).
getDatabase(db) == db

\* client.isConnected() / db.topology.isConnected()
IsConnected(h, up) == <<h.by, h.n>> \in up

\* Where the instance is in Idle -> Connecting -> {Connected, Failed}.
Phase(s) ==
    IF s.pc \in {"new", "constructing", "threw"} THEN "Idle"
    ELSE IF s.connecting THEN "Connecting"
    ELSE IF s.error # Null THEN "Failed"
    ELSE IF s.pc = "done" THEN "Connected"
    ELSE "Unsettled"

HasEmitted(s, name) == \E k \in DOMAIN s.emitted : s.emitted[k].name = name

\* EventEmitter.emit: the listeners of ready() (once) and the listener the
\* user attached after construction run synchronously.
emit(s, name, arg) ==
    [s EXCEPT
        !.emitted = Append(@, [name |-> name, arg |-> arg]),
        !.heard = IF s.attached /\ name \in ConnSignals THEN Append(@, name) ELSE @,
        !.ready = [k \in DOMAIN @ |->
            IF @[k].st = "pending" /\ name \in ConnSignals
            THEN [@[k] EXCEPT !.st = IF name = "connection" THEN "resolved" ELSE "rejected",
                              !.val = arg]
            ELSE @[k]]]

_updateConnectionStatus(s, up) ==
    IF s.db = Null
    THEN [s EXCEPT !.connected = FALSE, !.connecting = FALSE]
    ELSE IF s.client # Null
    THEN [s EXCEPT !.connected = IF isConnFn THEN IsConnected(s.client, up) ELSE TRUE]
    ELSE [s EXCEPT !.connected = IsConnected(s.db, up)]

\* _setDb that emits connection at once instead of on the next tick.
_setDb_emitNow(s, db, client, up) ==
    LET s1 == [s EXCEPT !.connecting = FALSE,
                        !.db = getDatabase(db),
                        !.client = IF client # Null THEN client ELSE @]
    IN  IF s1.client = Null
        THEN [s |-> s1, threw |-> TRUE]
        ELSE [s |-> emit(_updateConnectionStatus([s1 EXCEPT !.errEventOn = s1.client], up),
                         "connection", Payload(s1.db, s1.client, Null)),
              threw |-> FALSE]

\* _setDb that schedules the emission of connection before it registers
\* the listeners on this.client.
_setDb_tickFirst(s, db, client, up) ==
    LET s1 == [s EXCEPT !.connecting = FALSE,
                        !.db = getDatabase(db),
                        !.client = IF client # Null THEN client ELSE @,
                        !.tick = TRUE]
    IN  IF s1.client = Null
        THEN [s |-> s1, threw |-> TRUE]
        ELSE [s |-> _updateConnectionStatus([s1 EXCEPT !.errEventOn = s1.client], up),
              threw |-> FALSE]

\* _setDb(db, client): threw tells that this.client.on(...) raised a
\* TypeError because this.client is null; nothing after it has run then.
_setDb(s, db, client, up) ==
    LET s1 == [s EXCEPT !.connecting = FALSE,
                        !.db = getDatabase(db),
                        !.client = IF client # Null THEN client ELSE @]
    IN  IF s1.client = Null
        THEN [s |-> s1, threw |-> TRUE]
        ELSE [s |-> [_updateConnectionStatus([s1 EXCEPT !.errEventOn = s1.client], up)
                        EXCEPT !.tick = TRUE],
              threw |-> FALSE]

\* _fail that keeps this.db and this.client.
_fail_keepsDb(s, err, up) ==
    LET s1 == [s EXCEPT !.connecting = FALSE, !.error = err]
    IN  emit(_updateConnectionStatus(s1, up), "connectionFailed",
             Payload(Null, Null, err))

_fail(s, err, up) ==
    LET s1 == [s EXCEPT !.connecting = FALSE, !.db = Null, !.client = Null,
                        !.error = err]
    IN  emit(_updateConnectionStatus(s1, up), "connectionFailed",
             Payload(Null, Null, err))

\* ready() without `if (this.error) throw this.error`.
ready_noErrorCheck(s, by) ==
    LET call(st, val) ==
            [at |-> Phase(s), signalled |-> \E n \in ConnSignals : HasEmitted(s, n),
             by |-> by, st |-> st, val |-> val]
    IN  [s EXCEPT !.ready = Append(@,
            IF s.connected THEN call("resolved", Payload(s.db, s.client, Null))
            ELSE call("pending", NoPayload))]

\* ready(): the promise it returns, recorded with the phase it was called
\* in, whether connection or connectionFailed had been emitted by then, and
\* its caller (the user, or an upload that waits for the connection).
ready(s, by) ==
    LET call(st, val) ==
            [at |-> Phase(s), signalled |-> \E n \in ConnSignals : HasEmitted(s, n),
             by |-> by, st |-> st, val |-> val]
    IN  [s EXCEPT !.ready = Append(@,
            IF s.error # Null THEN call("rejected", Payload(Null, Null, s.error))
            ELSE IF s.connected THEN call("resolved", Payload(s.db, s.client, Null))
            ELSE call("pending", NoPayload))]

\* errEvent: the handler of the client's error, parseError, timeout and
\* close events.
BackendError == [k |-> "Error", by |-> "backend", n |-> 0]
\* errEvent that treats the notification as a failure of the connection.
errEvent_fails(s, up) == _fail(s, BackendError, up)

errEvent(s, up) ==
    emit(_updateConnectionStatus(s, up), "dbError", Payload(Null, Null, BackendError))

\* _resolveConnection without `cached.opening = true`.
_resolveConnection_noOpening(s, c) ==
    LET s1 == [s EXCEPT !.connecting = TRUE]
        idx == s.cacheIndex
    IN  IF s.cfg.kind # "url"
        THEN [s |-> [s1 EXCEPT !.pc = "awaitDb", !.via = "promise"],
              cache |-> c, connect |-> FALSE, threw |-> FALSE]
        ELSE IF ~s.caching \/ (~cache_isOpening(c, idx) /\ cache_isPending(c, idx))
        THEN [s |-> [s1 EXCEPT !.pc = "awaitConnect", !.via = "create"],
              cache |-> c, connect |-> TRUE, threw |-> FALSE]
        ELSE [s |-> [s1 EXCEPT !.pc = "waitFor", !.via = "waitFor"],
              cache |-> c, connect |-> FALSE, threw |-> FALSE]

\* _resolveConnection() up to its first await: connect tells that
\* MongoClient.connect was called (by _createConnection).
_resolveConnection(s, c) ==
    LET s1 == [s EXCEPT !.connecting = TRUE]
        idx == s.cacheIndex
    IN  IF s.cfg.kind # "url"
        THEN [s |-> [s1 EXCEPT !.pc = "awaitDb", !.via = "promise"],
              cache |-> c, connect |-> FALSE, threw |-> FALSE]
        ELSE IF ~s.caching
        THEN [s |-> [s1 EXCEPT !.pc = "awaitConnect", !.via = "create"],
              cache |-> c, connect |-> TRUE, threw |-> FALSE]
        ELSE IF ~cache_isOpening(c, idx) /\ cache_isPending(c, idx)
        THEN [s |-> [s1 EXCEPT !.pc = "awaitConnect", !.via = "create"],
              cache |-> [c EXCEPT ![idx].status = "opening"],
              connect |-> TRUE, threw |-> FALSE]
        ELSE [s |-> [s1 EXCEPT !.pc = "waitFor", !.via = "waitFor"],
              cache |-> c, connect |-> FALSE, threw |-> FALSE]

\* The handles of the configuration of instance i.
ConfigDb(i) == Db("user", i)
ConfigClient(i, cfg) == IF cfg.hasClient THEN Client("user", i) ELSE Null

\* _connect(): a resolved handle is set at once, anything else is awaited.
_connect(s, i, c, up) ==
    IF s.cfg.kind = "handle"
    THEN LET r == _setDb(s, ConfigDb(i), ConfigClient(i, s.cfg), up)
         IN  [s |-> [r.s EXCEPT !.pc = IF r.threw THEN "threw" ELSE "done",
                                !.via = "handle"],
              cache |-> c, connect |-> FALSE, threw |-> r.threw]
    ELSE _resolveConnection(s, c)

\* constructor(configuration)
Constructor(i, cfg, c, up) ==
    LET caching == cfg.kind = "url" /\ cfg.cache # "false"
        name == IF cfg.cache = "true" THEN "default" ELSE cfg.cache
        idx == [name |-> name, url |-> cfg.url]
        s0 == NewInstance(cfg)
        s1 == IF caching
              THEN [s0 EXCEPT !.caching = TRUE, !.cacheName = name, !.cacheIndex = idx]
              ELSE s0
        c1 == IF caching THEN cache_initialize(c, idx) ELSE c
    IN  _connect(s1, i, c1, up)

\* _createConnection whose catch block rethrows without cache.reject.
_createConnection_noReject(s, i, c, out) ==
    IF out.kind # "error"
    THEN LET db == Db("driver", i)
             client == IF out.kind = "MongoClient" THEN Client("driver", i) ELSE Null
         IN  [s |-> [s EXCEPT !.pc = "resolved", !.res = Payload(db, client, Null)],
              cache |-> IF s.caching THEN cache_resolve(c, s.cacheIndex, db, client) ELSE c]
    ELSE [s |-> [s EXCEPT !.pc = "rejected", !.res = Payload(Null, Null, out.error)],
          cache |-> c]

\* _createConnection() after MongoClient.connect settled with out: a
\* MongoClient (mongodb 3), a Db (mongodb 2) or an error.
_createConnection(s, i, c, out) ==
    IF out.kind # "error"
    THEN LET db == Db("driver", i)
             client == IF out.kind = "MongoClient" THEN Client("driver", i) ELSE Null
         IN  [s |-> [s EXCEPT !.pc = "resolved", !.res = Payload(db, client, Null)],
              cache |-> IF s.caching THEN cache_resolve(c, s.cacheIndex, db, client) ELSE c]
    ELSE [s |-> [s EXCEPT !.pc = "rejected", !.res = Payload(Null, Null, out.error)],
          cache |-> IF s.cacheIndex # NoIndex
                    THEN cache_reject(c, s.cacheIndex, out.error) ELSE c]

\* ---------------------------------------------------------------- uploads
\* A JavaScript value of the upload settings: t is its type (absent for a
\* key the object does not have), v its text.
V(t, v) == [t |-> t, v |-> v]
Absent == V("absent", "")
Undefined == V("undefined", "")
NullValue == V("null", "")

Truthy(x) ==
    ~ \/ x.t \in {"absent", "undefined", "null"}
      \/ x.t = "string" /\ x.v = ""
      \/ x.t = "number" /\ x.v = "0"
      \/ x.t = "boolean" /\ x.v = "false"

\* An object with none of the keys of the upload settings.
EmptyObj ==
    [filename |-> Absent, id |-> Absent, metadata |-> Absent, chunkSize |-> Absent,
     bucketName |-> Absent, aliases |-> Absent, contentType |-> Absent]

defaults ==
    [EmptyObj EXCEPT !.metadata = NullValue, !.chunkSize = V("number", "261120"),
                     !.bucketName = V("string", "fs"), !.aliases = NullValue]

\* {...a, ...b}: the keys b has replace those of a, whatever their value.
Spread(a, b) == [k \in DOMAIN a |-> IF b[k].t = "absent" THEN a[k] ELSE b[k]]

\* What the file function returns or the generator yields.
Val(t, v) == [t |-> t, v |-> v, obj |-> EmptyObj]
Obj(o) == [t |-> "object", v |-> "", obj |-> o]

FilenameFields == {Absent, NullValue, V("string", ""), V("string", "a.txt")}
IdFields == {Absent, NullValue, V("ObjectID", "X")}
Mappings ==
    {[EmptyObj EXCEPT !.filename = f, !.id = d] : f \in FilenameFields, d \in IdFields}
    \cup {[EmptyObj EXCEPT !.filename = f, !.contentType = V("string", "text/plain"),
                           !.bucketName = V("string", "photos"),
                           !.chunkSize = V("number", "1024"),
                           !.metadata = V("object", "m"),
                           !.aliases = V("object", "a")] : f \in FilenameFields}
FileResults ==
    {Val("undefined", ""), Val("null", ""), Val("number", "7"), Val("number", "0"),
     Val("string", "abc"), Val("string", ""), Val("boolean", "true"), Val("function", "")}
    \cup {Obj(o) : o \in Mappings}
\* A result of an accepted type and one of an unsupported type.
CommonResults == {Val("undefined", ""), Val("boolean", "true")}

\* What a call of the file function or an advance of the generator does.
Outcome(kind, value) == [kind |-> kind, value |-> value]
Outcomes(values) ==
    {Outcome("value", r) : r \in values}
    \cup {Outcome("throw", Val("undefined", "")), Outcome("done", Val("undefined", ""))}

UploadError(msg) == [k |-> "Error", by |-> msg, n |-> 0]
NotOpenErr == UploadError("The database connection must be open to store files")
InvalidTypeErr == UploadError("Invalid type for file settings")
GeneratorEndedErr == UploadError("Generator ended unexpectedly")
ResolverErr == UploadError("thrown by the file function")
CryptoErr == UploadError("crypto.randomBytes failed")

\* crypto.randomBytes(16).toString('hex')
GeneratedName == V("string", "00112233445566778899aabbccddeeff")
\* new ObjectID()
GeneratedId == V("ObjectID", "new")
Mimetype == V("string", "image/png")

\* The writer of an upload: the db it was made on, what the driver does
\* with it (st) and the calls and notifications it has seen, in order.
NoWriter == [created |-> FALSE, db |-> Null, st |-> "none", log |-> <<>>, error |-> Null]

\* An invocation of the callback of _handleFile.
CbCall(error, file) == [error |-> error, file |-> file]

NoUpload ==
    [pc |-> "none", entry |-> "none", at |-> "none", hasFile |-> FALSE, rdy |-> 0,
     value |-> Val("undefined", ""), err |-> Null,
     settings |-> EmptyObj, needBytes |-> FALSE, options |-> EmptyObj,
     called |-> 0, adv |-> 0, out |-> Outcome("none", Val("undefined", "")),
     writer |-> NoWriter, emitted |-> <<>>, result |-> EmptyObj,
     chain |-> "none", cb |-> <<>>]

typeof(x) == IF x.t = "null" THEN "object" ELSE x.t
AllowedTypes == {"undefined", "number", "string", "object"}

\* fromStream: the settings object made of the value _generate gave.
SettingsOf(fileSettings) ==
    IF fileSettings.t \in {"null", "undefined"} THEN EmptyObj
    ELSE IF fileSettings.t \in {"string", "number"}
    THEN [EmptyObj EXCEPT !.filename = V("string", fileSettings.v)]
    ELSE fileSettings.obj

\* _handleResult(result, isGen)
_handleResult(result, isGen) ==
    IF result.threw THEN [value |-> Val("undefined", ""), err |-> ResolverErr]
    ELSE IF isGen /\ result.done
    THEN [value |-> Val("undefined", ""), err |-> GeneratorEndedErr]
    ELSE [value |-> result.value, err |-> Null]

\* generator.next(): a generator that returned or threw is done for good.
GeneratorNext(gen, out) ==
    IF gen.done \/ out.kind = "done"
    THEN [done |-> TRUE, value |-> Val("undefined", ""), threw |-> FALSE]
    ELSE [done |-> FALSE, value |-> out.value, threw |-> out.kind = "throw"]

\* _generate that does not keep the generator it made in this._file.
_generate_notKept(s, out) ==
    IF s._file.kind = "none"
    THEN [s |-> s, value |-> Obj(EmptyObj), err |-> Null, advanced |-> 0]
    ELSE IF s._file.kind \in {"generatorFn", "generator"}
    THEN LET result == GeneratorNext([s._file EXCEPT !.done = FALSE], out)
             r == _handleResult(result, TRUE)
         IN  [s |-> [s EXCEPT !._file.made = @ + 1],
              value |-> r.value, err |-> r.err, advanced |-> 1]
    ELSE LET r == _handleResult([done |-> FALSE, value |-> out.value,
                                 threw |-> out.kind = "throw"], FALSE)
         IN  [s |-> s, value |-> r.value, err |-> r.err, advanced |-> 0]

\* _generate(request, file), out being what the file function or the
\* generator does when it is called.
_generate(s, out) ==
    IF s._file.kind = "none"
    THEN [s |-> s, value |-> Obj(EmptyObj), err |-> Null, advanced |-> 0]
    ELSE IF s._file.kind \in {"generatorFn", "generator"}
    THEN LET result == GeneratorNext(s._file, out)
             r == _handleResult(result, TRUE)
         IN  [s |-> [s EXCEPT !._file =
                        [kind |-> "generator",
                         done |-> result.done \/ result.threw,
                         made |-> IF s._file.kind = "generatorFn" THEN @.made + 1
                                  ELSE @.made]],
              value |-> r.value, err |-> r.err, advanced |-> 1]
    ELSE LET r == _handleResult([done |-> FALSE, value |-> out.value,
                                 threw |-> out.kind = "throw"], FALSE)
         IN  [s |-> s, value |-> r.value, err |-> r.err, advanced |-> 0]

\* _mergeProps that spreads the defaults and extra over fileSettings.
_mergeProps_defaultsLast(extra, fileSettings, bytes) ==
    LET named == IF Truthy(fileSettings.filename) THEN EmptyObj
                 ELSE [EmptyObj EXCEPT !.filename = bytes]
        previous == IF ~Truthy(fileSettings.id) THEN [named EXCEPT !.id = GeneratedId]
                    ELSE named
    IN  Spread(Spread(Spread(previous, fileSettings), defaults), extra)

\* _mergeProps(extra, fileSettings), bytes being what generateBytes gave.
_mergeProps(extra, fileSettings, bytes) ==
    LET named == IF Truthy(fileSettings.filename) THEN EmptyObj
                 ELSE [EmptyObj EXCEPT !.filename = bytes]
        previous == IF ~Truthy(fileSettings.id) THEN [named EXCEPT !.id = GeneratedId]
                    ELSE named
    IN  Spread(Spread(Spread(previous, defaults), extra), fileSettings)

\* What the driver or cb throws, and what a writer fails with.
DriverErr == UploadError("thrown by the driver")
CallbackErr == UploadError("thrown by cb")
StreamErrors == {UploadError("write failed"), UploadError("store failed")}
StoreOutcomes == {[kind |-> "ok", error |-> Null]}
                 \cup {[kind |-> "error", error |-> e] : e \in StreamErrors}

\* The argument of the file and streamError signals of upload u in the
\* instance's list of emitted signals.
UploadArg(u) == Payload(Null, Null, [k |-> "upload", by |-> "signal", n |-> u])

\* createStream(options): the writer made on this.db.
createStream(s, options) ==
    [created |-> TRUE, db |-> s.db, st |-> "made", log |-> <<"createStream">>,
     error |-> Null]

\* The file document the driver reports for a stored file: what it was
\* written with; the document does not name its bucket.
FileDoc(options) == [options EXCEPT !.bucketName = Absent]

Pending(upl) == upl.pc \in {"opening", "streaming", "closing"}

\* emitError that rejects the promise and emits no signal.
emitError_noSignal(s, u, upl, streamError) ==
    [s |-> s,
     u |-> [upl EXCEPT !.pc = IF Pending(upl) THEN "rejected" ELSE @,
                       !.err = IF Pending(upl) THEN streamError ELSE @]]

\* emitError(streamError) of fromStream
emitError(s, u, upl, streamError) ==
    [s |-> emit(s, "streamError", UploadArg(u)),
     u |-> [upl EXCEPT
                !.emitted = Append(@, [name |-> "streamError", error |-> streamError,
                                       arg |-> upl.options]),
                !.pc = IF Pending(upl) THEN "rejected" ELSE @,
                !.err = IF Pending(upl) THEN streamError ELSE @]]

\* emitFile that takes bucketName from the file document.
emitFile_docBucket(s, u, upl, f) ==
    LET storedFile ==
            [EmptyObj EXCEPT !.id = f.id, !.filename = f.filename,
                             !.metadata = IF Truthy(f.metadata) THEN f.metadata
                                          ELSE NullValue,
                             !.bucketName = f.bucketName,
                             !.chunkSize = f.chunkSize,
                             !.contentType = f.contentType]
    IN  [s |-> emit(s, "file", UploadArg(u)),
         u |-> [upl EXCEPT
                    !.emitted = Append(@, [name |-> "file", error |-> Null,
                                           arg |-> storedFile]),
                    !.pc = IF Pending(upl) THEN "resolved" ELSE @,
                    !.result = IF Pending(upl) THEN storedFile ELSE @]]

\* emitFile(f) of fromStream
emitFile(s, u, upl, f) ==
    LET storedFile ==
            [EmptyObj EXCEPT !.id = f.id, !.filename = f.filename,
                             !.metadata = IF Truthy(f.metadata) THEN f.metadata
                                          ELSE NullValue,
                             !.bucketName = upl.options.bucketName,
                             !.chunkSize = f.chunkSize,
                             !.contentType = f.contentType]
    IN  [s |-> emit(s, "file", UploadArg(u)),
         u |-> [upl EXCEPT
                    !.emitted = Append(@, [name |-> "file", error |-> Null,
                                           arg |-> storedFile]),
                    !.pc = IF Pending(upl) THEN "resolved" ELSE @,
                    !.result = IF Pending(upl) THEN storedFile ELSE @]]

\* fromStream from `await this._generate(request, file)` on.
Generate(s, upl, out) ==
    LET g == _generate(s, out)
    IN  [s |-> g.s,
         u |-> [upl EXCEPT !.pc = "awaitGenerate", !.value = g.value, !.err = g.err,
                           !.called = @ + 1, !.adv = @ + g.advanced, !.out = out]]

\* fromStream without `if (this.connecting) await this.ready()`.
fromStream_noWait(s, upl, out) == Generate(s, upl, out)

\* fromStream(readStream, request, file) up to its first await.
fromStream(s, upl, out) ==
    IF s.connecting
    THEN [s |-> ready(s, "upload"),
          u |-> [upl EXCEPT !.pc = "awaitReady", !.rdy = Len(s.ready) + 1]]
    ELSE Generate(s, upl, out)

\* _handleFile(request, file, cb) up to its return.
_handleFile(s, upl, out, up) ==
    IF s.connecting
    THEN [s |-> ready(s, "upload"),
          u |-> [upl EXCEPT !.pc = "awaitReady", !.rdy = Len(s.ready) + 1,
                            !.chain = "pending"]]
    ELSE LET s1 == _updateConnectionStatus(s, up)
         IN  IF s1.connected
             THEN fromStream(s1, [upl EXCEPT !.chain = "pending"], out)
             ELSE [s |-> s1, u |-> [upl EXCEPT !.pc = "rejected", !.err = NotOpenErr,
                                                !.cb = <<CbCall(NotOpenErr, EmptyObj)>>]]

\* ----------------------------------------------------------------- actions
\* The calls and notifications made so far.
RECURSIVE ReadyCalls(_, _)
ReadyCalls(f, n) ==
    IF n = 0 THEN 0
    ELSE Len(SelectSeq(f[n].ready, LAMBDA r : r.by = "user")) + ReadyCalls(f, n - 1)
Ops == ReadyCalls(inst, NInst) + notified

Init ==
    /\ inst = [i \in Inst |-> Unconstructed]
    /\ cache = [sig \in Sigs |-> EmptySlot]
    /\ connects = <<>>
    /\ linkUp = {}
    /\ notified = 0
    /\ isConnFn \in BOOLEAN
    /\ legacy \in BOOLEAN
    /\ uploads = [u \in UploadIds |-> NoUpload]

\* new GridFSStorage(cfg) (the instances are numbered in the order they are
\* constructed); then, in the same turn, the caller attaches listeners for
\* connection and connectionFailed and, when callReady holds, calls ready().
\* up is the link status of a handle given in the configuration.
Construct(i, cfg, up, callReady) ==
    /\ inst[i].pc = "new"
    /\ \A j \in Inst : j < i => inst[j].pc # "new"
    /\ callReady => Ops < MaxOps
    /\ LET up1 == IF cfg.kind = "handle" /\ up THEN linkUp \cup {<<"user", i>>} ELSE linkUp
           r == Constructor(i, cfg, cache, up1)
           s1 == [r.s EXCEPT !.attached = TRUE]
       IN  /\ r.threw => ~callReady
           /\ inst' = [inst EXCEPT ![i] =
                    IF r.threw THEN r.s
                    ELSE IF callReady THEN ready(s1, "user") ELSE s1]
           /\ cache' = r.cache
           /\ connects' = IF r.connect THEN Append(connects, [inst |-> i, url |-> cfg.url]) ELSE connects
           /\ linkUp' = up1
    /\ UNCHANGED <<notified, isConnFn, legacy, uploads>>

\* MongoClient.connect settles and _createConnection() returns or throws.
ConnectSettle(i, out) ==
    /\ inst[i].pc = "awaitConnect"
    /\ LET r == _createConnection(inst[i], i, cache, out)
       IN  /\ inst' = [inst EXCEPT ![i] = r.s]
           /\ cache' = r.cache
    /\ linkUp' = IF out.kind = "error" THEN linkUp ELSE linkUp \cup {<<"driver", i>>}
    /\ UNCHANGED <<connects, notified, isConnFn, legacy, uploads>>

\* The db (and client) promise of the configuration settles.
DbPromiseSettle(i, out) ==
    /\ inst[i].pc = "awaitDb"
    /\ IF out.kind # "error"
       THEN /\ inst' = [inst EXCEPT ![i].pc = "resolved",
                        ![i].res = Payload(ConfigDb(i), ConfigClient(i, inst[i].cfg), Null)]
            /\ linkUp' = linkUp \cup {<<"user", i>>}
       ELSE /\ inst' = [inst EXCEPT ![i].pc = "rejected", ![i].res = Payload(Null, Null, out.error)]
            /\ UNCHANGED linkUp
    /\ UNCHANGED <<cache, connects, notified, isConnFn, legacy, uploads>>

\* The promise of cache.waitFor(cacheIndex) settles.
WaitForSettle(i) ==
    /\ inst[i].pc = "waitFor"
    /\ cache_waitForSettled(cache, inst[i].cacheIndex)
    /\ LET slot == cache[inst[i].cacheIndex]
       IN  inst' = [inst EXCEPT
                ![i].pc = IF slot.status = "resolved" THEN "resolved" ELSE "rejected",
                ![i].res = Payload(slot.db, slot.client, slot.error)]
    /\ UNCHANGED <<cache, connects, linkUp, notified, isConnFn, legacy, uploads>>

\* .then(({db, client}) => this._setDb(db, client))
ThenSetDb(i) ==
    /\ inst[i].pc = "resolved"
    /\ LET r == _setDb(inst[i], inst[i].res.db, inst[i].res.client, linkUp)
       IN  inst' = [inst EXCEPT ![i] =
                IF r.threw
                THEN [r.s EXCEPT !.pc = "rejected", !.res.error = TypeErr]
                ELSE [r.s EXCEPT !.pc = "done"]]
    /\ UNCHANGED <<cache, connects, linkUp, notified, isConnFn, legacy, uploads>>

\* .catch((error) => this._fail(error))
CatchFail(i) ==
    /\ inst[i].pc = "rejected"
    /\ inst' = [inst EXCEPT ![i] = [_fail(inst[i], inst[i].res.error, linkUp) EXCEPT !.pc = "done"]]
    /\ UNCHANGED <<cache, connects, linkUp, notified, isConnFn, legacy, uploads>>

\* The process.nextTick callback of _setDb.
Tick(i) ==
    /\ inst[i].tick
    /\ inst' = [inst EXCEPT ![i] =
            emit([inst[i] EXCEPT !.tick = FALSE], "connection",
                 Payload(inst[i].db, inst[i].client, Null))]
    /\ UNCHANGED <<cache, connects, linkUp, notified, isConnFn, legacy, uploads>>

\* A ready() call made in a turn after the construction.
Ready(i) ==
    /\ inst[i].pc \notin {"new", "threw"}
    /\ Ops < MaxOps
    /\ inst' = [inst EXCEPT ![i] = ready(inst[i], "user")]
    /\ UNCHANGED <<cache, connects, linkUp, notified, isConnFn, legacy, uploads>>

\* The client c emits error, parseError, timeout or close; the link is up
\* or down afterwards (down after close). Every instance listening on c
\* runs errEvent.
Notify(c, kind, up) ==
    /\ Ops < MaxOps
    /\ c # Null
    /\ \E i \in Inst : inst[i].errEventOn = c
    /\ kind = "close" => ~up
    /\ linkUp' = IF up THEN linkUp \cup {<<c.by, c.n>>} ELSE linkUp \ {<<c.by, c.n>>}
    /\ inst' = [i \in Inst |->
            IF inst[i].errEventOn = c THEN errEvent(inst[i], linkUp') ELSE inst[i]]
    /\ notified' = notified + 1
    /\ UNCHANGED <<cache, connects, isConnFn, legacy, uploads>>

\* The file function can be called with outcome out: only a generator
\* reports done.
Fits(s, out) ==
    /\ s.pc \notin {"new", "threw"}
    /\ out.kind = "done" => s._file.kind \in {"generatorFn", "generator"}
    /\ s._file.kind = "none" => out = Outcome("value", Val("undefined", ""))

IsNextUpload(u) ==
    /\ uploads[u].pc = "none"
    /\ \A v \in UploadIds : v < u => uploads[v].pc # "none"

\* The middleware calls _handleFile(request, file, cb).
HandleFile(i, u, out) ==
    /\ IsNextUpload(u)
    /\ Fits(inst[i], out)
    /\ LET r == _handleFile(inst[i], [NoUpload EXCEPT !.entry = "_handleFile",
                                                      !.at = Phase(inst[i]),
                                                      !.hasFile = TRUE], out, linkUp)
       IN  /\ inst' = [inst EXCEPT ![i] = r.s]
           /\ uploads' = [uploads EXCEPT ![u] = r.u]
    /\ UNCHANGED <<cache, connects, linkUp, notified, isConnFn, legacy>>

\* The user calls fromStream(readStream, request, file), with or without
\* a file.
FromStream(i, u, hasFile, out) ==
    /\ IsNextUpload(u)
    /\ Fits(inst[i], out)
    /\ LET r == fromStream(inst[i], [NoUpload EXCEPT !.entry = "fromStream",
                                                     !.at = Phase(inst[i]),
                                                     !.hasFile = hasFile], out)
       IN  /\ inst' = [inst EXCEPT ![i] = r.s]
           /\ uploads' = [uploads EXCEPT ![u] = r.u]
    /\ UNCHANGED <<cache, connects, linkUp, notified, isConnFn, legacy>>

\* The promise of the ready() call an upload waits for has settled.
AfterReady(i, u, out) ==
    /\ uploads[u].pc = "awaitReady"
    /\ inst[i].ready[uploads[u].rdy].st # "pending"
    /\ Fits(inst[i], out)
    /\ LET p == inst[i].ready[uploads[u].rdy]
           r == IF uploads[u].entry = "_handleFile"
                THEN fromStream(inst[i], uploads[u], out)
                ELSE Generate(inst[i], uploads[u], out)
       IN  IF p.st = "rejected"
           THEN /\ uploads' = [uploads EXCEPT ![u].pc = "rejected", ![u].err = p.val.error]
                /\ out = Outcome("value", Val("undefined", ""))
                /\ UNCHANGED inst
           ELSE /\ inst' = [inst EXCEPT ![i] = r.s]
                /\ uploads' = [uploads EXCEPT ![u] = r.u]
    /\ UNCHANGED <<cache, connects, linkUp, notified, isConnFn, legacy>>

\* fromStream after `await this._generate(request, file)`, up to the await
\* in _mergeProps.
AfterGenerate(u) ==
    /\ uploads[u].pc = "awaitGenerate"
    /\ LET upl == uploads[u]
           settings == SettingsOf(upl.value)
       IN  uploads' = [uploads EXCEPT ![u] =
                IF upl.err # Null THEN [upl EXCEPT !.pc = "rejected"]
                ELSE IF typeof(upl.value) \notin AllowedTypes
                THEN [upl EXCEPT !.pc = "rejected", !.err = InvalidTypeErr]
                ELSE [upl EXCEPT !.pc = "awaitBytes", !.settings = settings,
                                 !.needBytes = ~Truthy(settings.filename)]]
    /\ UNCHANGED <<inst, cache, connects, linkUp, notified, isConnFn, legacy>>

\* _mergeProps after its await: generateBytes, when it was called, gave a
\* name (ok) or failed.
AfterBytes(u, ok) ==
    /\ uploads[u].pc = "awaitBytes"
    /\ ~uploads[u].needBytes => ok
    /\ LET upl == uploads[u]
           extra == [EmptyObj EXCEPT !.contentType =
                        IF upl.hasFile THEN Mimetype ELSE Undefined]
       IN  uploads' = [uploads EXCEPT ![u] =
                IF ~ok THEN [upl EXCEPT !.pc = "rejected", !.err = CryptoErr]
                ELSE [upl EXCEPT !.pc = "awaitMerge",
                                 !.options = _mergeProps(extra, upl.settings, GeneratedName)]]
    /\ UNCHANGED <<inst, cache, connects, linkUp, notified, isConnFn, legacy>>

\* CreateStream that, with the legacy driver, starts the pump and listens
\* for end before the store is open.
CreateStream_pumpAtOnce(i, u, throws) ==
    /\ uploads[u].pc = "awaitMerge"
    /\ throws => inst[i].db = Null
    /\ LET w == createStream(inst[i], uploads[u].options)
       IN  uploads' = [uploads EXCEPT ![u] =
                IF throws
                THEN [@ EXCEPT !.writer = w, !.pc = "rejected", !.err = DriverErr]
                ELSE IF legacy
                THEN [@ EXCEPT !.pc = "streaming",
                               !.writer = [w EXCEPT !.st = "piping",
                                    !.log = @ \o <<"on error", "on end", "pump", "open">>]]
                ELSE [@ EXCEPT !.pc = "streaming",
                               !.writer = [w EXCEPT !.st = "piping",
                                    !.log = @ \o <<"on error", "on finish", "pump">>]]]
    /\ UNCHANGED <<inst, cache, connects, linkUp, notified, isConnFn, legacy>>

\* fromStream after `await GridFSStorage._mergeProps(...)`: the promise
\* executor calls this.createStream(streamOptions), registers emitError for
\* the writer's error and, legacy, opens the store, or else registers
\* emitFile for finish and starts the pump. With a null db the driver may
\* throw (throws) and the promise is rejected with what it threw.
CreateStream(i, u, throws) ==
    /\ uploads[u].pc = "awaitMerge"
    /\ throws => inst[i].db = Null
    /\ LET w == createStream(inst[i], uploads[u].options)
       IN  uploads' = [uploads EXCEPT ![u] =
                IF throws
                THEN [@ EXCEPT !.writer = w, !.pc = "rejected", !.err = DriverErr]
                ELSE IF legacy
                THEN [@ EXCEPT !.pc = "opening",
                               !.writer = [w EXCEPT !.st = "opening",
                                                    !.log = @ \o <<"on error", "open">>]]
                ELSE [@ EXCEPT !.pc = "streaming",
                               !.writer = [w EXCEPT !.st = "piping",
                                    !.log = @ \o <<"on error", "on finish", "pump">>]]]
    /\ UNCHANGED <<inst, cache, connects, linkUp, notified, isConnFn, legacy>>

\* The callback of store.open(): with an error it calls emitError, else it
\* registers the listener of end and starts the pump.
OpenDone(i, u, out) ==
    /\ uploads[u].writer.st = "opening"
    /\ IF out.kind = "error"
       THEN LET r == emitError(inst[i], u,
                        [uploads[u] EXCEPT !.writer.st = "errored",
                                           !.writer.error = out.error,
                                           !.writer.log = Append(@, "open failed")],
                        out.error)
            IN  /\ inst' = [inst EXCEPT ![i] = r.s]
                /\ uploads' = [uploads EXCEPT ![u] = r.u]
       ELSE /\ uploads' = [uploads EXCEPT ![u].pc = "streaming",
                                          ![u].writer.st = "piping",
                                          ![u].writer.log = @ \o <<"opened", "on end", "pump">>]
            /\ UNCHANGED inst
    /\ UNCHANGED <<cache, connects, linkUp, notified, isConnFn, legacy>>

\* The writer emits error while the source is piped into it.
WriterError(i, u, e) ==
    /\ uploads[u].writer.st = "piping"
    /\ LET r == emitError(inst[i], u,
                    [uploads[u] EXCEPT !.writer.st = "errored",
                                       !.writer.error = e,
                                       !.writer.log = Append(@, "error")], e)
       IN  /\ inst' = [inst EXCEPT ![i] = r.s]
           /\ uploads' = [uploads EXCEPT ![u] = r.u]
    /\ UNCHANGED <<cache, connects, linkUp, notified, isConnFn, legacy>>

\* The modern writer emits finish with the stored file.
WriterFinish(i, u) ==
    /\ ~legacy
    /\ uploads[u].writer.st = "piping"
    /\ LET r == emitFile(inst[i], u,
                    [uploads[u] EXCEPT !.writer.st = "finished",
                                       !.writer.log = Append(@, "finish")],
                    FileDoc(uploads[u].options))
       IN  /\ inst' = [inst EXCEPT ![i] = r.s]
           /\ uploads' = [uploads EXCEPT ![u] = r.u]
    /\ UNCHANGED <<cache, connects, linkUp, notified, isConnFn, legacy>>

\* The legacy stream emits end: its listener calls store.close().
WriterEnd(u) ==
    /\ legacy
    /\ uploads[u].writer.st = "piping"
    /\ uploads' = [uploads EXCEPT ![u].pc = "closing",
                                  ![u].writer.st = "closing",
                                  ![u].writer.log = @ \o <<"end", "close">>]
    /\ UNCHANGED <<inst, cache, connects, linkUp, notified, isConnFn, legacy>>

\* The callback of store.close(): emitError with the error or emitFile with
\* the stored file.
CloseDone(i, u, out) ==
    /\ uploads[u].writer.st = "closing"
    /\ LET r == IF out.kind = "error"
                THEN emitError(inst[i], u,
                        [uploads[u] EXCEPT !.writer.st = "errored",
                                           !.writer.error = out.error,
                                           !.writer.log = Append(@, "close failed")],
                        out.error)
                ELSE emitFile(inst[i], u,
                        [uploads[u] EXCEPT !.writer.st = "finished",
                                           !.writer.log = Append(@, "closed")],
                        FileDoc(uploads[u].options))
       IN  /\ inst' = [inst EXCEPT ![i] = r.s]
           /\ uploads' = [uploads EXCEPT ![u] = r.u]
    /\ UNCHANGED <<cache, connects, linkUp, notified, isConnFn, legacy>>

\* The source stream fails: pump destroys both streams, the writer reports
\* nothing more and the promise of the upload stays pending.
SourceError(u) ==
    /\ uploads[u].writer.st = "piping"
    /\ uploads' = [uploads EXCEPT ![u].writer.st = "destroyed",
                                  ![u].writer.log = Append(@, "destroy")]
    /\ UNCHANGED <<inst, cache, connects, linkUp, notified, isConnFn, legacy>>

\* .then((file) => cb(null, file)) of _handleFile; cb returns or throws.
CallbackFile(u, throws) ==
    /\ uploads[u].chain = "pending"
    /\ uploads[u].pc = "resolved"
    /\ uploads' = [uploads EXCEPT
            ![u].cb = Append(@, CbCall(Null, uploads[u].result)),
            ![u].chain = IF throws THEN "cbThrew" ELSE "done"]
    /\ UNCHANGED <<inst, cache, connects, linkUp, notified, isConnFn, legacy>>

\* .catch(cb) of _handleFile: the promise before it was rejected, by the
\* upload or by what cb threw in the .then before.
CallbackError(u) ==
    /\ \/ uploads[u].chain = "pending" /\ uploads[u].pc = "rejected"
       \/ uploads[u].chain = "cbThrew"
    /\ uploads' = [uploads EXCEPT
            ![u].cb = Append(@, CbCall(IF uploads[u].chain = "cbThrew" THEN CallbackErr
                                       ELSE uploads[u].err, EmptyObj)),
            ![u].chain = "done"]
    /\ UNCHANGED <<inst, cache, connects, linkUp, notified, isConnFn, legacy>>

Clients == {Client(by, i) : by \in {"user", "driver"}, i \in Inst}

\* The configurations without a file option.
ConnConfigs == {cfg \in Configs : cfg.file = "none"}
UrlConfigs == {cfg \in ConnConfigs : cfg.kind = "url" /\ cfg.cache # "false"}

\* The connection of one instance, with the ready() calls of its user and
\* the notifications of its backend.
Next ==
    \/ \E cfg \in ConnConfigs, up \in BOOLEAN, callReady \in BOOLEAN :
            Construct(1, cfg, up, callReady)
    \/ \E out \in ConnectOutcomes : ConnectSettle(1, out)
    \/ \E out \in DbPromiseOutcomes : DbPromiseSettle(1, out)
    \/ ThenSetDb(1)
    \/ CatchFail(1)
    \/ Tick(1)
    \/ Ready(1)
    \/ \E c \in Clients, kind \in NotifyKinds, up \in BOOLEAN : Notify(c, kind, up)

Spec == Init /\ [][Next]_vars

\* Several instances constructed with a url and the cache option, sharing
\* GridFSStorage.cache.
NextCache ==
    \/ \E i \in Inst, cfg \in UrlConfigs, callReady \in BOOLEAN :
            Construct(i, cfg, FALSE, callReady)
    \/ \E i \in Inst, out \in ConnectOutcomes : ConnectSettle(i, out)
    \/ \E i \in Inst : WaitForSettle(i)
    \/ \E i \in Inst : ThenSetDb(i)
    \/ \E i \in Inst : CatchFail(i)
    \/ \E i \in Inst : Tick(i)

SpecCache == Init /\ [][NextCache]_vars

\* One instance and an upload made on it, while it connects and after.
NextUpload ==
    \/ \E cfg \in Configs, up \in BOOLEAN : Construct(1, cfg, up, FALSE)
    \/ \E out \in ConnectOutcomes : ConnectSettle(1, out)
    \/ \E out \in DbPromiseOutcomes : DbPromiseSettle(1, out)
    \/ ThenSetDb(1)
    \/ CatchFail(1)
    \/ Tick(1)
    \/ \E c \in Clients, kind \in NotifyKinds, up \in BOOLEAN : Notify(c, kind, up)
    \/ \E out \in Outcomes(CommonResults) : HandleFile(1, 1, out)
    \/ \E out \in Outcomes(CommonResults) : FromStream(1, 1, FALSE, out)
    \/ \E out \in Outcomes(CommonResults) : AfterReady(1, 1, out)
    \/ AfterGenerate(1)
    \/ \E ok \in BOOLEAN : AfterBytes(1, ok)
    \/ \E throws \in BOOLEAN : CreateStream(1, 1, throws)
    \/ \E out \in StoreOutcomes : OpenDone(1, 1, out)
    \/ \E e \in StreamErrors : WriterError(1, 1, e)
    \/ WriterFinish(1, 1)
    \/ WriterEnd(1)
    \/ \E out \in StoreOutcomes : CloseDone(1, 1, out)
    \/ SourceError(1)
    \/ \E throws \in BOOLEAN : CallbackFile(1, throws)
    \/ CallbackError(1)

SpecUpload == Init /\ [][NextUpload]_vars

\* The instance the upload settings are computed on: constructed with a
\* connected db and client, its connection signal emitted.
ConnectedInstance(f) ==
    LET cfg == [kind |-> "handle", hasClient |-> TRUE, cache |-> "false", url |-> "none",
                file |-> f]
        s == Constructor(1, cfg, [sig \in Sigs |-> EmptySlot], {<<"user", 1>>}).s
    IN  emit([s EXCEPT !.attached = TRUE, !.tick = FALSE], "connection",
             Payload(s.db, s.client, Null))

InitSettings ==
    /\ isConnFn \in BOOLEAN
    /\ legacy \in BOOLEAN
    /\ \E f \in {"function", "generatorFn"} :
            inst = [i \in Inst |-> IF i = 1 THEN ConnectedInstance(f) ELSE Unconstructed]
    /\ cache = [sig \in Sigs |-> EmptySlot]
    /\ connects = <<>>
    /\ linkUp = {<<"user", 1>>}
    /\ notified = 0
    /\ uploads = [u \in UploadIds |-> NoUpload]

\* An upload of a connected instance, for every value the file function
\* can give.
NextSettings ==
    \/ \E out \in Outcomes(FileResults) : HandleFile(1, 1, out)
    \/ \E hasFile \in BOOLEAN, out \in Outcomes(FileResults) :
            FromStream(1, 1, hasFile, out)
    \/ AfterGenerate(1)
    \/ \E ok \in BOOLEAN : AfterBytes(1, ok)
    \/ CreateStream(1, 1, FALSE)
    \/ CallbackError(1)

SpecSettings == InitSettings /\ [][NextSettings]_vars

\* A connected instance whose file option is one of files.
InitConnected(files) ==
    /\ isConnFn \in BOOLEAN
    /\ legacy \in BOOLEAN
    /\ \E f \in files :
            inst = [i \in Inst |-> IF i = 1 THEN ConnectedInstance(f) ELSE Unconstructed]
    /\ cache = [sig \in Sigs |-> EmptySlot]
    /\ connects = <<>>
    /\ linkUp = {<<"user", 1>>}
    /\ notified = 0
    /\ uploads = [u \in UploadIds |-> NoUpload]

\* The uploads of a connected instance whose file option is a function or a
\* generator function, up to the creation of their writers.
InitResolver == InitConnected({"function", "generatorFn"})

NextResolver ==
    \/ \E u \in UploadIds, out \in Outcomes(CommonResults) : HandleFile(1, u, out)
    \/ \E u \in UploadIds, out \in Outcomes(CommonResults) : FromStream(1, u, TRUE, out)
    \/ \E u \in UploadIds : AfterGenerate(u)
    \/ \E u \in UploadIds, ok \in BOOLEAN : AfterBytes(u, ok)
    \/ \E u \in UploadIds : CreateStream(1, u, FALSE)
    \/ \E u \in UploadIds : CallbackError(u)

SpecResolver == InitResolver /\ [][NextResolver]_vars

\* What the file function gives in the uploads whose writers are followed.
WriterResults ==
    {Val("undefined", ""),
     Obj([EmptyObj EXCEPT !.filename = V("string", "a.txt"),
                          !.contentType = V("string", "text/plain"),
                          !.bucketName = V("string", "photos"),
                          !.chunkSize = V("number", "1024"),
                          !.metadata = V("object", "m"),
                          !.aliases = V("object", "a")])}

\* The uploads of a connected instance, from the call to the last
\* notification of their writers and the call of cb.
InitWriter == InitConnected({"function"})

NextWriter ==
    \/ \E u \in UploadIds, r \in WriterResults : HandleFile(1, u, Outcome("value", r))
    \/ \E u \in UploadIds, r \in WriterResults : FromStream(1, u, TRUE, Outcome("value", r))
    \/ \E u \in UploadIds : AfterGenerate(u)
    \/ \E u \in UploadIds : AfterBytes(u, TRUE)
    \/ \E u \in UploadIds : CreateStream(1, u, FALSE)
    \/ \E u \in UploadIds, out \in StoreOutcomes : OpenDone(1, u, out)
    \/ \E u \in UploadIds, e \in StreamErrors : WriterError(1, u, e)
    \/ \E u \in UploadIds : WriterFinish(1, u)
    \/ \E u \in UploadIds : WriterEnd(u)
    \/ \E u \in UploadIds, out \in StoreOutcomes : CloseDone(1, u, out)
    \/ \E u \in UploadIds : SourceError(u)
    \/ \E u \in UploadIds : CallbackFile(u, FALSE)
    \/ \E u \in UploadIds : CallbackError(u)

SpecWriter == InitWriter /\ [][NextWriter]_vars

\* WaitForSettle, ThenSetDb, CatchFail and Tick are continuations of settled
\* promises and process.nextTick callbacks: the event loop runs them.
Scheduled(i) ==
    /\ WF_vars(WaitForSettle(i))
    /\ WF_vars(ThenSetDb(i))
    /\ WF_vars(CatchFail(i))
    /\ WF_vars(Tick(i))

SpecCacheFair == SpecCache /\ \A i \in Inst : Scheduled(i)

\* ------------------------------------------------------------------ claims
Members(sig) == {i \in Inst : inst[i].cacheIndex = sig}
ConnectsOf(I) == {k \in DOMAIN connects : connects[k].inst \in I}
Opener(sig) == CHOOSE i \in Members(sig) : \A j \in Members(sig) : i <= j
Signals(s) == SelectSeq(s.emitted, LAMBDA e : e.name \in ConnSignals)

ConnectFailed(i, e) ==
    /\ inst[i].via = "create"
    /\ inst[i].pc \in {"rejected", "done"}
    /\ inst[i].res.db = Null
    /\ inst[i].res.error = e

RejectedWith(s, e) ==
    /\ Phase(s) = "Failed"
    /\ s.error = e
    /\ s.db = Null /\ s.client = Null /\ ~s.connected
    /\ Signals(s) = <<[name |-> "connectionFailed", arg |-> Payload(Null, Null, e)]>>
    /\ \A k \in DOMAIN s.ready :
            s.ready[k].st = "rejected" /\ s.ready[k].val = Payload(Null, Null, e)

C2_Poisoned ==
    \A sig \in Sigs : \A e \in ConnErrors :
        /\ (Members(sig) # {} /\ ConnectFailed(Opener(sig), e)) =>
                cache[sig].status = "rejected" /\ cache[sig].error = e
        /\ (cache[sig].status = "rejected" /\ cache[sig].error = e) =>
                \A i \in Members(sig) :
                    /\ inst[i].pc = "rejected" => inst[i].res.error = e
                    /\ inst[i].pc = "done" => RejectedWith(inst[i], e)

\* C2: when the opener's connect fails with error E, the cache slot is
\* rejected with E, and every instance of that signature, whether it was
\* waiting then or starts waiting later, reaches Failed with E:
\* connectionFailed is emitted with E and its ready() calls reject with E;
\* none of them stays Connecting.
C2_FailureReachesAllWaiters ==
    /\ []C2_Poisoned
    /\ \A i \in Inst : \A e \in ConnErrors :
            (inst[i].caching /\ cache[inst[i].cacheIndex].status = "rejected"
                /\ cache[inst[i].cacheIndex].error = e)
            ~> RejectedWith(inst[i], e)

\* A waiter, which called ready() while Connecting, has failed with the
\* error the opener's connect failed with.
C2_Witness ==
    \E sig \in Sigs : \E i \in Members(sig) : \E e \in ConnErrors :
        /\ i # Opener(sig)
        /\ ConnectFailed(Opener(sig), e)
        /\ inst[i].via = "waitFor"
        /\ inst[i].ready # <<>>
        /\ RejectedWith(inst[i], e)

ReadyCallsOf(s) == {s.ready[k] : k \in DOMAIN s.ready}

\* C3: a ready() call made while the instance is Connecting resolves with
\* {db, client} when the connection succeeds (the connection signal is
\* emitted); and every ready() call made after a connection attempt has
\* failed with error E rejects with the stored error E.
C3_ReadyFollowsOutcome ==
    \A i \in Inst : \A r \in ReadyCallsOf(inst[i]) :
        /\ (r.at = "Connecting" /\ HasEmitted(inst[i], "connection")) =>
                /\ r.st = "resolved"
                /\ r.val = Payload(inst[i].db, inst[i].client, Null)
                /\ inst[i].db # Null
        /\ r.at = "Failed" =>
                /\ r.st = "rejected"
                /\ r.val = Payload(Null, Null, inst[i].error)
                /\ inst[i].error # Null

\* A ready() call made while Connecting has resolved with the handles.
C3_Witness ==
    \E i \in Inst : \E r \in ReadyCallsOf(inst[i]) :
        r.at = "Connecting" /\ r.st = "resolved" /\ r.val.db # Null

\* Two ready() calls made after the failure have both rejected.
C3_WitnessFailed ==
    \E i \in Inst :
        /\ Len(inst[i].ready) = 2
        /\ \A r \in ReadyCallsOf(inst[i]) : r.at = "Failed" /\ r.st = "rejected"

\* C4: a ready() call made once the instance is Connected and its connection
\* signal has been emitted resolves with {db, client} at once, also after
\* backend notifications; no ready() call made after the connection attempt
\* has settled stays pending.
C4_ReadyAfterConnected ==
    \A i \in Inst : \A r \in ReadyCallsOf(inst[i]) :
        (r.at \in {"Connected", "Failed"} /\ r.signalled) =>
            /\ r.st # "pending"
            /\ r.at = "Connected" =>
                    r.st = "resolved" /\ r.val = Payload(inst[i].db, inst[i].client, Null)

\* C5: connection and connectionFailed are never emitted in the turn of the
\* construction: the listener attached right after the constructor returned
\* has heard every one of them, and a ready() call made before any of them
\* was emitted is settled by the first one, resolved by connection and
\* rejected by connectionFailed.
C5_NoSignalMissed ==
    \A i \in Inst :
        inst[i].attached =>
            /\ Len(inst[i].heard) = Len(Signals(inst[i]))
            /\ \A k \in DOMAIN inst[i].heard : inst[i].heard[k] = Signals(inst[i])[k].name
            /\ \A r \in ReadyCallsOf(inst[i]) :
                    (~r.signalled /\ Signals(inst[i]) # <<>>) =>
                        r.st = IF Signals(inst[i])[1].name = "connection"
                               THEN "resolved" ELSE "rejected"

\* An instance constructed with a resolved handle: the listener attached
\* after the constructor has heard connection, and the ready() call made
\* with it has resolved.
C5_Witness ==
    \E i \in Inst :
        /\ inst[i].cfg.kind = "handle"
        /\ inst[i].heard = <<"connection">>
        /\ \E r \in ReadyCallsOf(inst[i]) : ~r.signalled /\ r.st = "resolved"

\* The connection of instance i was obtained: the promise of
\* _resolveConnection was fulfilled with a db handle.
Obtained(s) == s.res.db # Null

\* C6: whenever the connection is obtained, with or without a client
\* handle, the instance stores db and client, leaves error null and emits
\* connection; connectionFailed is emitted and error is set only when the
\* connect operation failed.
C6_ObtainedMeansConnected ==
    \A i \in Inst :
        /\ (inst[i].pc = "done" /\ Obtained(inst[i])) =>
                /\ inst[i].db = inst[i].res.db
                /\ inst[i].client = inst[i].res.client
                /\ inst[i].error = Null
                /\ inst[i].tick \/ HasEmitted(inst[i], "connection")
        /\ (inst[i].error # Null \/ HasEmitted(inst[i], "connectionFailed")) =>
                ~Obtained(inst[i]) /\ inst[i].res.error \in ConnErrors

\* C7: an instance constructed with a resolved db handle, with or without
\* a client, is set up when the constructor returns: connecting is false,
\* db is the handle, no connect and no cache lookup was made, and
\* connection is emitted once, on a later turn.
C7_ResolvedHandleConnectsAtOnce ==
    \A i \in Inst :
        (inst[i].pc # "new" /\ inst[i].cfg.kind = "handle") =>
            /\ inst[i].pc = "done"
            /\ ~inst[i].connecting
            /\ inst[i].db = ConfigDb(i)
            /\ inst[i].error = Null
            /\ ConnectsOf({i}) = {}
            /\ inst[i].cacheIndex = NoIndex
            /\ Len(Signals(inst[i])) + (IF inst[i].tick THEN 1 ELSE 0) = 1
            /\ \A k \in DOMAIN Signals(inst[i]) : Signals(inst[i])[k].name = "connection"

C8_Terminal ==
    \A i \in Inst :
        /\ Len(Signals(inst[i])) + (IF inst[i].tick THEN 1 ELSE 0) <= 1
        /\ Cardinality(ConnectsOf({i})) <= 1
        /\ inst[i].error # Null =>
                /\ inst[i].db = Null /\ inst[i].client = Null
                /\ ~inst[i].connected /\ ~inst[i].connecting
                /\ ~inst[i].tick /\ inst[i].pc = "done"
                /\ ~HasEmitted(inst[i], "connection")

C8_Step ==
    \A i \in Inst :
        /\ inst[i].error # Null => inst'[i].error = inst[i].error
        /\ Phase(inst[i]) \in {"Connected", "Failed"} =>
                /\ Phase(inst'[i]) = Phase(inst[i])
                /\ ConnectsOf({i})' = ConnectsOf({i})

\* C8: Failed and Connected are terminal and exclude each other: an
\* instance emits at most one signal among connection and connectionFailed,
\* once; after a failure the error is never cleared, db and client stay null,
\* connected stays false and no other connect is attempted.
C8_TerminalStates == []C8_Terminal /\ [][C8_Step]_vars

\* An instance has failed after its db promise gave a handle without a
\* client: it emitted connectionFailed only.
C8_Witness ==
    \E i \in Inst :
        /\ Phase(inst[i]) = "Failed"
        /\ inst[i].error = TypeErr
        /\ Len(Signals(inst[i])) = 1

\* C9: connected = true implies error = null, after any sequence of connect
\* success, connect failure, backend notifications and uploads.
C9_ConnectedHasNoError ==
    \A i \in Inst : inst[i].connected => inst[i].error = Null

\* A connected instance that received a notification and an upload through
\* _handleFile.
C9_Witness ==
    \E i \in Inst : \E u \in UploadIds :
        /\ inst[i].connected
        /\ notified > 0
        /\ uploads[u].entry = "_handleFile" /\ uploads[u].pc = "streaming"

\* C10: for every upload and every value of an accepted type the file
\* function gives, the settings passed to createStream hold a non-empty
\* filename and a non-null id.
C10_SettingsHaveFilenameAndId ==
    \A u \in UploadIds :
        uploads[u].writer.created =>
            /\ uploads[u].options.filename.t = "string"
            /\ uploads[u].options.filename.v # ""
            /\ uploads[u].options.id.t \notin {"absent", "undefined", "null"}

\* The state SpecSettings starts in is a state of SpecUpload.
InitSettingsReached ==
    /\ \E f \in {"function", "generatorFn"} : inst[1] = ConnectedInstance(f)
    /\ linkUp = {<<"user", 1>>}
    /\ \A u \in UploadIds : uploads[u] = NoUpload

\* The signals of upload u, of one name, in the list of the instance.
UploadSignals(s, u, name) ==
    SelectSeq(s.emitted, LAMBDA e : e.name = name /\ e.arg = UploadArg(u))
Has(log, what) == \E k \in DOMAIN log : log[k] = what

\* C11: when the writer reports an error during an upload (its error
\* event, a failed open or a failed close of the legacy store), the promise
\* of the upload is rejected with that error, streamError is emitted exactly
\* once for the upload, with that error and the settings of the upload, and
\* no file signal is emitted for it.
C11_WriterErrorRejects ==
    \A u \in UploadIds :
        uploads[u].writer.error # Null =>
            /\ uploads[u].pc = "rejected"
            /\ uploads[u].err = uploads[u].writer.error
            /\ uploads[u].emitted =
                    <<[name |-> "streamError", error |-> uploads[u].writer.error,
                       arg |-> uploads[u].options]>>
            /\ Len(UploadSignals(inst[1], u, "streamError")) = 1
            /\ Len(UploadSignals(inst[1], u, "file")) = 0

\* The close of the legacy store failed for one upload and the modern or
\* legacy writer of an upload emitted error.
C11_Witness ==
    \E u \in UploadIds :
        /\ uploads[u].writer.error # Null
        /\ uploads[u].pc = "rejected"
        /\ Has(uploads[u].writer.log, "close failed")

C11_WitnessModern ==
    \E u \in UploadIds :
        /\ ~legacy
        /\ uploads[u].writer.error # Null
        /\ Has(uploads[u].writer.log, "error")

C11_WitnessOpen ==
    \E u \in UploadIds : Has(uploads[u].writer.log, "open failed")

\* C12: when an upload completes (the modern writer emits finish, the
\* legacy store closes without error after end), file is emitted exactly
\* once for it, with the UploadResult the promise resolves with, whose
\* bucketName is that of the settings used, and no streamError is emitted
\* for it; no upload emits both file and streamError.
C12_FileSignalOnce ==
    \A u \in UploadIds :
        /\ uploads[u].writer.st = "finished" =>
                /\ uploads[u].pc = "resolved"
                /\ uploads[u].emitted =
                        <<[name |-> "file", error |-> Null, arg |-> uploads[u].result]>>
                /\ uploads[u].result.bucketName = uploads[u].options.bucketName
                /\ Len(UploadSignals(inst[1], u, "file")) = 1
                /\ Len(UploadSignals(inst[1], u, "streamError")) = 0
        /\ ~ /\ \E k \in DOMAIN uploads[u].emitted : uploads[u].emitted[k].name = "file"
             /\ \E k \in DOMAIN uploads[u].emitted :
                    uploads[u].emitted[k].name = "streamError"
        /\ Len(UploadSignals(inst[1], u, "file"))
                + Len(UploadSignals(inst[1], u, "streamError")) <= 1

\* Two uploads have completed, one in the bucket its resolver named and one
\* in the default bucket.
C12_Witness ==
    \E u, v \in UploadIds :
        /\ u # v
        /\ uploads[u].writer.st = "finished" /\ uploads[v].writer.st = "finished"
        /\ uploads[u].result.bucketName = V("string", "photos")
        /\ uploads[v].result.bucketName = V("string", "fs")

C12_WitnessLegacy ==
    \E u \in UploadIds : legacy /\ uploads[u].pc = "resolved"

ResolverErrors == {ResolverErr, InvalidTypeErr, GeneratorEndedErr}

\* The instance of SpecResolver is as it was constructed: connected.
ConnectionUntouched(s) ==
    /\ s.db = ConfigDb(1) /\ s.client # Null
    /\ s.connected /\ ~s.connecting /\ s.error = Null

\* The part of C13 about the failed upload itself and the instance.
C13_LocalEffects ==
    /\ ConnectionUntouched(inst[1])
    /\ \A u \in UploadIds :
        uploads[u].err \in ResolverErrors =>
            /\ uploads[u].pc \in {"awaitGenerate", "rejected"}
            /\ ~uploads[u].writer.created
            /\ uploads[u].emitted = <<>>
            /\ UploadSignals(inst[1], u, "file") = <<>>
            /\ UploadSignals(inst[1], u, "streamError") = <<>>

\* C13: when the file function or the generator throws, gives a value of
\* an unsupported type or the generator has ended, only that upload fails:
\* its promise is rejected, no writer is made, no file and no streamError is
\* emitted and the connection fields of the instance are unchanged; and an
\* upload whose own resolver call yields a value of an accepted type (the
\* generator not having returned before) is not failed by the resolver
\* because an earlier upload was.
C13_ResolverErrorIsLocal ==
    /\ C13_LocalEffects
    /\ \A u \in UploadIds :
        ( /\ uploads[u].out.kind = "value"
          /\ typeof(uploads[u].out.value) \in AllowedTypes
          /\ \A w \in UploadIds : w < u => uploads[w].out.kind # "done" )
        => uploads[u].err \notin ResolverErrors

Generated(upl) == upl.called > 0

\* C14: with a generator function as file option, the generator is made
\* once per instance, at the first upload, and kept; every upload, in any
\* interleaving, advances it exactly once (an upload refused before the
\* resolver, for want of a connection, advances nothing); an upload whose
\* advance reports done is rejected with 'Generator ended unexpectedly'.
C14_OneGeneratorAdvancedOnce ==
    \A i \in Inst :
        inst[i].cfg.file = "generatorFn" =>
            /\ inst[i]._file.made = IF \E u \in UploadIds : Generated(uploads[u])
                                    THEN 1 ELSE 0
            /\ inst[i]._file.kind = IF inst[i]._file.made = 0 THEN "generatorFn"
                                    ELSE "generator"
            /\ \A u \in UploadIds :
                    /\ uploads[u].called <= 1
                    /\ uploads[u].adv = uploads[u].called
                    /\ ( \/ uploads[u].pc \notin {"none", "awaitReady", "rejected"}
                         \/ uploads[u].err \in ResolverErrors
                         \/ uploads[u].writer.created ) => uploads[u].adv = 1
                    /\ (Generated(uploads[u]) /\ uploads[u].out.kind = "done") =>
                            /\ uploads[u].err = GeneratorEndedErr
                            /\ uploads[u].pc \in {"awaitGenerate", "rejected"}
                            /\ ~uploads[u].writer.created

\* Two uploads have advanced the one generator; the first got a value and a
\* writer, the second was told done and is rejected.
C14_Witness ==
    /\ inst[1]._file = [kind |-> "generator", done |-> TRUE, made |-> 1]
    /\ uploads[1].adv = 1 /\ uploads[1].writer.created
    /\ uploads[2].adv = 1 /\ uploads[2].out.kind = "done"
    /\ uploads[2].pc = "rejected" /\ uploads[2].err = GeneratorEndedErr

\* The upload has its settings: _mergeProps has returned.
Merged(upl) ==
    upl.pc \in {"awaitMerge", "opening", "streaming", "closing", "resolved"}
    \/ upl.writer.created

\* What the resolver output of the upload holds for key k: a string or a
\* number V stands for {filename: String(V)}, null and undefined for {}.
ResolverGives(upl, k) ==
    IF upl.value.t = "object" THEN upl.value.obj[k]
    ELSE IF upl.value.t \in {"string", "number"} /\ k = "filename"
    THEN V("string", upl.value.v)
    ELSE Absent

\* C15: the settings of an upload are, key by key, what the resolver
\* output holds for the key; failing that the contentType of the file
\* descriptor, the static default (chunkSize 261120, bucketName 'fs',
\* metadata null, aliases null), or the generated filename and id. A string
\* or number V gives filename String(V) with the defaults.
C15_MergePrecedence ==
    \A u \in UploadIds :
        Merged(uploads[u]) =>
            \A k \in DOMAIN EmptyObj :
                uploads[u].options[k] =
                    IF ResolverGives(uploads[u], k).t # "absent"
                    THEN ResolverGives(uploads[u], k)
                    ELSE CASE k = "contentType" ->
                                IF uploads[u].hasFile THEN Mimetype ELSE Undefined
                           [] k = "chunkSize" -> V("number", "261120")
                           [] k = "bucketName" -> V("string", "fs")
                           [] k = "metadata" -> NullValue
                           [] k = "aliases" -> NullValue
                           [] k = "filename" -> GeneratedName
                           [] k = "id" -> GeneratedId

\* The resolver gave a mapping with a contentType and a bucket and no id:
\* its values are in the settings, with a generated id.
C15_Witness ==
    \E u \in UploadIds :
        /\ Merged(uploads[u]) /\ uploads[u].hasFile
        /\ uploads[u].value.t = "object"
        /\ uploads[u].value.obj.contentType = V("string", "text/plain")
        /\ uploads[u].options.contentType = V("string", "text/plain")
        /\ uploads[u].options.bucketName = V("string", "photos")
        /\ uploads[u].options.id = GeneratedId

\* The resolver gave the number 7: filename "7" with all the defaults.
C15_WitnessNumber ==
    \E u \in UploadIds :
        /\ Merged(uploads[u])
        /\ uploads[u].value = Val("number", "7")
        /\ uploads[u].options.filename = V("string", "7")
        /\ uploads[u].options.chunkSize = V("number", "261120")

\* In log every b comes after an a.
Before(log, a, b) ==
    \A k \in DOMAIN log : log[k] = b => \E j \in 1..(k - 1) : log[j] = a

\* C16: with the legacy driver the pump starts only after store.open() has
\* succeeded; when open() fails the pump never starts and the upload fails
\* with that error; store.close() is called only after the end event of the
\* stream, and the result of the upload comes only from a close() without
\* error.
C16_LegacyOpenThenPipeThenClose ==
    legacy =>
        \A u \in UploadIds :
            LET log == uploads[u].writer.log
            IN  /\ Before(log, "open", "opened")
                /\ Before(log, "opened", "pump")
                /\ Before(log, "open", "open failed")
                /\ Has(log, "open failed") =>
                        /\ ~Has(log, "pump") /\ ~Has(log, "opened")
                        /\ uploads[u].pc = "rejected"
                        /\ uploads[u].err = uploads[u].writer.error
                /\ Before(log, "pump", "end")
                /\ Before(log, "end", "close")
                /\ Before(log, "close", "closed")
                /\ Before(log, "close", "close failed")
                /\ uploads[u].pc = "resolved" =>
                        /\ Has(log, "closed") /\ ~Has(log, "close failed")
                        /\ log[Len(log)] = "closed"
                /\ uploads[u].result # EmptyObj => uploads[u].pc = "resolved"

\* A legacy upload has gone through open, pump, end and close and has its
\* result.
C16_Witness ==
    \E u \in UploadIds :
        /\ legacy
        /\ uploads[u].pc = "resolved"
        /\ uploads[u].writer.log =
                <<"createStream", "on error", "open", "opened", "on end", "pump",
                  "end", "close", "closed">>

\* The open of a legacy store has failed.
C16_WitnessOpenFailed ==
    \E u \in UploadIds :
        /\ legacy
        /\ uploads[u].writer.log = <<"createStream", "on error", "open", "open failed">>
        /\ uploads[u].pc = "rejected"

\* The upload waits or has waited for the promise of a ready() call.
Waited(upl) == upl.rdy > 0

\* C17: an upload requested, through _handleFile or fromStream, while the
\* instance is Connecting calls no resolver and makes no writer before the
\* connection signal; after connection its ready() is resolved and it goes
\* on; after connectionFailed it fails with the connection error, which cb
\* receives, and never has a writer.
C17_UploadWaitsForConnection ==
    \A i \in Inst : \A u \in UploadIds :
        (inst[i].pc \notin {"new", "threw"} /\ uploads[u].at = "Connecting") =>
            /\ Waited(uploads[u])
            /\ inst[i].ready[uploads[u].rdy].at = "Connecting"
            /\ (uploads[u].called > 0 \/ uploads[u].writer.created) =>
                    HasEmitted(inst[i], "connection")
            /\ Signals(inst[i]) = <<>> =>
                    uploads[u].pc = "awaitReady" /\ uploads[u].cb = <<>>
            /\ HasEmitted(inst[i], "connection") =>
                    /\ inst[i].ready[uploads[u].rdy].st = "resolved"
                    /\ uploads[u].err \notin ConnErrors \cup {TypeErr}
            /\ HasEmitted(inst[i], "connectionFailed") =>
                    /\ uploads[u].pc \in {"awaitReady", "rejected"}
                    /\ uploads[u].called = 0 /\ ~uploads[u].writer.created
                    /\ uploads[u].pc = "rejected" => uploads[u].err = inst[i].error
                    /\ \A k \in DOMAIN uploads[u].cb :
                            uploads[u].cb[k] = CbCall(inst[i].error, EmptyObj)
                    /\ Len(uploads[u].cb) <= 1

\* A _handleFile call made while Connecting: the connection failed and cb
\* has received the connection error.
C17_Witness ==
    \E u \in UploadIds :
        /\ uploads[u].at = "Connecting" /\ uploads[u].entry = "_handleFile"
        /\ inst[1].error \in ConnErrors
        /\ uploads[u].cb = <<CbCall(inst[1].error, EmptyObj)>>

\* A fromStream call made while Connecting has its writer, after connection.
C17_WitnessProceeds ==
    \E u \in UploadIds :
        /\ uploads[u].at = "Connecting" /\ uploads[u].entry = "fromStream"
        /\ uploads[u].writer.created /\ uploads[u].writer.db # Null

DbErrors(s) == SelectSeq(s.emitted, LAMBDA e : e.name = "dbError")

\* What a notification of client c does to instance i in a step.
C18_NotifiedStep(c, i) ==
    IF inst[i].errEventOn = c
    THEN /\ inst'[i].emitted = Append(inst[i].emitted,
                [name |-> "dbError", arg |-> Payload(Null, Null, BackendError)])
         /\ inst'[i].db = inst[i].db /\ inst[i].db # Null
         /\ inst'[i].client = inst[i].client /\ inst[i].client = c
         /\ inst'[i].error = inst[i].error /\ inst[i].error = Null
         /\ inst'[i].connected = IF isConnFn THEN <<c.by, c.n>> \in linkUp' ELSE TRUE
         /\ inst'[i].connecting = inst[i].connecting
         /\ inst'[i].ready = inst[i].ready
         /\ inst'[i].tick = inst[i].tick
         /\ inst'[i]._file = inst[i]._file
    ELSE inst'[i] = inst[i]

\* C18: every notification of the backend (error, parseError, timeout,
\* close) gives exactly one dbError on each instance listening to that
\* client and re-derives its connected flag only: db, client and error are
\* unchanged, neither connection nor connectionFailed is emitted, and no
\* upload is rejected or otherwise changed.
C18_NotificationOnlyDbError ==
    [][notified' # notified =>
            /\ notified' = notified + 1
            /\ uploads' = uploads
            /\ \E c \in Clients :
                    /\ \E i \in Inst : inst[i].errEventOn = c
                    /\ \A i \in Inst : C18_NotifiedStep(c, i)]_vars

\* After a close, with an upload in flight: dbError was emitted, the
\* instance is not connected any more and the upload is still streaming.
C18_Witness ==
    \E u \in UploadIds :
        /\ Len(DbErrors(inst[1])) = notified /\ notified > 0
        /\ ~inst[1].connected /\ inst[1].db # Null /\ inst[1].error = Null
        /\ uploads[u].pc = "streaming" /\ uploads[u].writer.st = "piping"

\* C19: no writer is made (createStream is not called) on an instance whose
\* db is null, whether the upload came through _handleFile or fromStream
\* and whether the instance is Connecting, Failed or disconnected; such an
\* upload fails with an error.
C19_NoWriterOnNullDb ==
    \A u \in UploadIds :
        /\ uploads[u].writer.created => uploads[u].writer.db # Null
        /\ uploads[u].pc \in {"opening", "streaming", "closing", "resolved"} =>
                uploads[u].writer.db # Null

\* The promise of the upload is settled.
Settled(upl) == upl.pc \in {"resolved", "rejected"}

\* C20: for every _handleFile call cb is invoked at most once, and once
\* the connection attempt and the upload have settled and the promise chain
\* has run, exactly once: with the connection error or the error of the
\* upload, with the stored file, or, when the instance is neither
\* connecting nor connected, with the 'database connection must be open'
\* error.
C20_CallbackOnce ==
    \A u \in UploadIds :
        uploads[u].entry = "_handleFile" =>
            /\ Len(uploads[u].cb) <= 1
            /\ uploads[u].cb # <<>> =>
                    /\ Settled(uploads[u])
                    /\ uploads[u].cb[1] =
                            IF uploads[u].pc = "resolved"
                            THEN CbCall(Null, uploads[u].result)
                            ELSE CbCall(uploads[u].err, EmptyObj)
            /\ (Settled(uploads[u]) /\ uploads[u].chain \in {"none", "done"}) =>
                    Len(uploads[u].cb) = 1
            /\ uploads[u].chain = "none" => uploads[u].cb[1].error = NotOpenErr

====
